---- MODULE Spec2Model ----
(***************************************************************************)
(* Model of the sandboxed tool layer of the AgentOS application:           *)
(*   src/app/tools/system/shell_tools.py  (class ShellTools)               *)
(*   src/app/tools/system/file_tools.py   (class FileTools)                *)
(*                                                                         *)
(* Python strings are sequences of one-character strings (the backtick    *)
(* and U+00E9 are written "BACKTICK" and "E_ACUTE").  A Python dict        *)
(* returned by a tool is a record with a field "keys" holding the set of   *)
(* keys the dict really has; fields outside "keys" carry a default.        *)
(***************************************************************************)
EXTENDS Integers, Sequences, FiniteSets, TLC

VARIABLES
    allowed_commands,   \* ShellTools.allowed_commands (set of strings)
    request,            \* the tool the caller turns to and the command it holds
    timeout_arg,        \* the timeout argument of the execute_command call
    process,            \* what subprocess.run returned to execute_command
    exec_ret,           \* outcome of execute_command for the request
    check_ret,          \* outcome of check_command_safety for the request
    aux_ret,            \* outcome of get_system_info / list_allowed_commands
    spawns,             \* the subprocess.run calls made so far, in order
    alive,              \* processes started by those calls that still run
    max_file_size,      \* FileTools.max_file_size
    fs,                 \* the file system: absolute path -> entry
    file_call,          \* the last file tool call and its arguments
    file_ret,           \* outcome of the last file tool call
    touched,            \* file-system entries the last file tool call read, wrote,
                        \* removed or reported
    deleted,            \* sanitized paths a delete_file removed and no create_file
                        \* has written since
    callers,            \* the file tool calls that run at the same time: for each
                        \* caller its call, the line it is at, its locals and result
    name_in,            \* input of the path sanitizer run
    name_out            \* result of the path sanitizer run

shell_vars == <<allowed_commands, request, timeout_arg, process, exec_ret, check_ret,
               aux_ret, spawns, alive>>
file_vars  == <<max_file_size, fs, file_call, file_ret, touched, deleted>>
race_vars  == <<callers>>
san_vars   == <<name_in, name_out>>
vars       == <<allowed_commands, request, timeout_arg, process, exec_ret, check_ret, aux_ret,
                spawns, alive,
                max_file_size, fs, file_call, file_ret, touched, deleted, callers,
                name_in, name_out>>

-----------------------------------------------------------------------------
(* Bounds of the model                                                     *)

MaxCmdLen == 5          \* longest command string drawn
MaxDescendants == 1     \* most processes a spawned shell forks
MaxNameLen == 4         \* longest file name drawn for the sanitizer run

-----------------------------------------------------------------------------
(* Strings                                                                 *)

BoundedSeq(S, n) == UNION {[1..k -> S] : k \in 0..n}

\* the characters of the model in code point order
CharOrder ==
    <<"\t", "\n", "\r", " ", "$", "&", "(", "*", "-", ".", "/", ";", "<", ">",
      "P", "S", "\\", "_", "BACKTICK",
      "a", "c", "d", "e", "f", "g", "h", "i", "l", "m", "n", "o", "p", "q",
      "r", "s", "t", "u", "w", "y", "|", "E_ACUTE">>

CodeTable ==
    [c \in {CharOrder[i] : i \in 1..Len(CharOrder)} |->
        CHOOSE i \in 1..Len(CharOrder) : CharOrder[i] = c]

Code(c) == CodeTable[c]

\* str.lower() on one character
LowerChar(c) == CASE c = "S" -> "s" [] c = "P" -> "p" [] OTHER -> c

lower(s) == [i \in 1..Len(s) |-> LowerChar(s[i])]

\* str.isspace() on one character
IsSpace(c) == c \in {" ", "\t", "\n", "\r"}

RECURSIVE lstrip(_)
lstrip(s) == IF s # <<>> /\ IsSpace(Head(s)) THEN lstrip(Tail(s)) ELSE s

RECURSIVE rstrip(_)
rstrip(s) ==
    IF s # <<>> /\ IsSpace(s[Len(s)]) THEN rstrip(SubSeq(s, 1, Len(s) - 1)) ELSE s

\* str.strip()
strip(s) == rstrip(lstrip(s))

\* the first element of str.split(): the first whitespace-delimited token
RECURSIVE TakeToken(_)
TakeToken(s) ==
    IF s = <<>> \/ IsSpace(Head(s)) THEN <<>> ELSE <<Head(s)>> \o TakeToken(Tail(s))

FirstToken(s) == TakeToken(lstrip(s))

\* pattern in s
Contains(s, pattern) ==
    \E i \in 1..(Len(s) - Len(pattern) + 1) :
        \A j \in 1..Len(pattern) : s[i + j - 1] = pattern[j]

\* s < t in Python's string order
RECURSIVE StrLess(_, _)
StrLess(s, t) ==
    IF t = <<>> THEN FALSE
    ELSE IF s = <<>> THEN TRUE
    ELSE IF Head(s) = Head(t) THEN StrLess(Tail(s), Tail(t))
    ELSE Code(Head(s)) < Code(Head(t))

\* seq, which is in order, with x put at its place
RECURSIVE Insert(_, _)
Insert(x, seq) ==
    IF seq = <<>> THEN <<x>>
    ELSE IF StrLess(Head(seq), x) THEN <<Head(seq)>> \o Insert(x, Tail(seq))
    ELSE <<x>> \o seq

\* sorted(S)
RECURSIVE sorted(_)
sorted(S) ==
    IF S = {} THEN <<>>
    ELSE LET x == CHOOSE y \in S : TRUE
         IN  Insert(x, sorted(S \ {x}))

-----------------------------------------------------------------------------
(* ShellTools: construction                                                *)

\* the default of ALLOWED_COMMANDS, already split at ','
default_commands ==
    << <<"c","u","r","l">>, <<"g","i","t">>, <<"l","s">>, <<"c","a","t">>,
       <<"h","e","a","d">>, <<"t","a","i","l">>, <<"g","r","e","p">>,
       <<"p","w","d">>, <<"w","h","o","a","m","i">>, <<"d","a","t","e">>,
       <<"e","c","h","o">>, <<"f","i","n","d">>, <<"w","c">>,
       <<"s","o","r","t">>, <<"u","n","i","q">> >>

\* values of the environment variable ALLOWED_COMMANDS, split at ',': the default
AllowedCommandsEnv == { default_commands }

\* set(cmd.strip() for cmd in allowed_commands_str.split(','))
ParseAllowed(items) == {strip(items[i]) : i \in 1..Len(items)}

timeout_default == 30
max_output_size == 10000
info_timeout == 5

-----------------------------------------------------------------------------
(* ShellTools: validation                                                  *)

\* command.strip().split()[0] if command.strip() else ""
BaseCommand(command) == FirstToken(strip(command))

\* a whitelist test that ignores case
IsCommandAllowedAnyCase(command) ==
    \E a \in allowed_commands : lower(a) = lower(BaseCommand(command))

_is_command_allowed(command) == BaseCommand(command) \in allowed_commands

\* dangerous_patterns of _sanitize_command, in list order
dangerous_patterns ==
    << <<"&","&">>, <<"|","|">>, <<";">>, <<"|">>, <<">">>, <<">",">">>, <<"<">>,
       <<"BACKTICK">>, <<"$","(">>, <<"r","m"," ","-","r","f">>, <<"c","h","m","o","d">>,
       <<"c","h","o","w","n">>, <<"s","u","d","o">>, <<"s","u">>,
       <<"p","a","s","s","w","d">> >>

\* the indexes of the patterns of a list found in a text
Matches(patterns, text) ==
    LET subs == {SubSeq(text, i, j) : i \in 1..Len(text), j \in 1..Len(text)}
    IN  {i \in 1..Len(patterns) : patterns[i] \in subs}

Min(S) == CHOOSE x \in S : \A y \in S : x <= y

\* a sanitizer that compares the patterns with the text as typed
SanitizeCommandCaseSensitive(command) ==
    LET sanitized == strip(command)
        hits == Matches(dangerous_patterns, sanitized)
    IN  IF hits # {}
        THEN [raised |-> TRUE, pattern |-> dangerous_patterns[Min(hits)], value |-> <<>>]
        ELSE [raised |-> FALSE, pattern |-> <<>>, value |-> sanitized]

\* raised: ValueError("Dangerous pattern detected: <pattern>") of the first
\* pattern of the list found in the lower-cased text
_sanitize_command(command) ==
    LET sanitized == strip(command)
        hits == Matches(dangerous_patterns, lower(sanitized))
    IN  IF hits # {}
        THEN [raised |-> TRUE, pattern |-> dangerous_patterns[Min(hits)], value |-> <<>>]
        ELSE [raised |-> FALSE, pattern |-> <<>>, value |-> sanitized]

-----------------------------------------------------------------------------
(* subprocess.run(..., shell=True, capture_output=True, timeout=t)         *)

SHELL_PID == 0

\* run times of a spawned command, in seconds
Durations == {1, timeout_default + 1}

\* The text of a captured stream is kept as its runs of equal characters,
\* <<[c |-> "a", n |-> 3], [c |-> "b", n |-> 1]>> for "aaab"; neighbouring
\* runs differ in c and every n is positive, so equal texts are equal values.
Run(c, n) == [c |-> c, n |-> n]

\* len(text)
RECURSIVE TextLen(_)
TextLen(text) == IF text = <<>> THEN 0 ELSE Head(text).n + TextLen(Tail(text))

\* text[:n], n >= 0
RECURSIVE Slice(_, _)
Slice(text, n) ==
    IF text = <<>> \/ n <= 0 THEN <<>>
    ELSE IF Head(text).n >= n THEN <<Run(Head(text).c, n)>>
    ELSE <<Head(text)>> \o Slice(Tail(text), n - Head(text).n)

\* texts a captured stream can hold: nothing, max_output_size characters,
\* and one character more
Streams ==
    { <<>>, <<Run("a", max_output_size)>>, <<Run("a", max_output_size), Run("b", 1)>> }

NoOutcome ==
    [type |-> "none", returncode |-> 0, stdout |-> <<>>, stderr |-> <<>>, descendants |-> 0]

\* what one subprocess.run call can do: complete within the timeout, run
\* past it (TimeoutExpired, with the processes the shell had forked), or
\* fail to start
RunOutcomes(t) ==
    {[NoOutcome EXCEPT !.type = "completed", !.returncode = rc, !.stdout = o, !.stderr = e] :
        rc \in IF \E d \in Durations : d <= t THEN {0, 1} ELSE {},
        o \in Streams, e \in Streams}
    \cup
    {[NoOutcome EXCEPT !.type = "TimeoutExpired", !.descendants = k] :
        k \in IF \E d \in Durations : d > t THEN 0..MaxDescendants ELSE {}}
    \cup
    {[NoOutcome EXCEPT !.type = x] : x \in {"FileNotFoundError", "PermissionError", "Exception"}}

\* the processes of a spawned command: the shell and what it forked
ProcessTree(outcome) == {SHELL_PID} \cup (1..outcome.descendants)

\* on TimeoutExpired subprocess.run kills the child it started (the shell)
\* and waits for it; on completion every process of the command has exited
AliveAfterRun(run, outcome) ==
    IF outcome.type = "TimeoutExpired"
    THEN {[run |-> run, pid |-> p] : p \in ProcessTree(outcome) \ {SHELL_PID}}
    ELSE {}

SpawnRecord(args, t) == [args |-> args, shell |-> TRUE, timeout |-> t]

-----------------------------------------------------------------------------
(* ShellTools.execute_command                                              *)

NoTimeout == [given |-> FALSE, value |-> 0]

\* exec_timeout = timeout or self.timeout
ExecTimeout(timeout) ==
    IF timeout.given /\ timeout.value # 0 THEN timeout.value ELSE timeout_default

NoExec ==
    [kind |-> "none", keys |-> {}, success |-> FALSE, error |-> "", error_arg |-> <<>>,
     allowed |-> <<>>, command |-> <<>>, return_code |-> 0, stdout |-> <<>>, stderr |-> <<>>,
     execution_time |-> 0, output_truncated |-> FALSE, timeout |-> 0]

ExecError(msg, arg, list) ==
    [NoExec EXCEPT !.kind = "return", !.keys = {"success", "error"},
                   !.error = msg, !.error_arg = arg, !.allowed = list]

\* a stream handed back as it was captured
ReturnWholeStream(stream) == stream

\* stream[:self.max_output_size] if stream else ""
TruncateStream(stream) ==
    IF stream # <<>> THEN Slice(stream, max_output_size) ELSE <<>>

\* the result of a run that completed (lines 108-127)
ExecCompleted(sanitized_command, exec_timeout, outcome) ==
    [NoExec EXCEPT
        !.kind = "return",
        !.keys = {"success", "command", "return_code", "stdout", "stderr",
                  "execution_time", "output_truncated"}
                 \cup (IF outcome.returncode # 0 THEN {"error"} ELSE {}),
        !.success = (outcome.returncode = 0),
        !.command = sanitized_command,
        !.return_code = outcome.returncode,
        !.stdout = TruncateStream(outcome.stdout),
        !.stderr = TruncateStream(outcome.stderr),
        !.execution_time = exec_timeout,
        !.output_truncated = (TextLen(outcome.stdout) > max_output_size
                              \/ TextLen(outcome.stderr) > max_output_size),
        !.error = IF outcome.returncode # 0 THEN "Command failed with return code" ELSE ""]

\* the result of a run that raised (lines 129-157)
ExecRaised(command, exec_timeout, outcome) ==
    IF outcome.type = "TimeoutExpired"
    THEN [NoExec EXCEPT !.kind = "return",
                        !.keys = {"success", "error", "command", "timeout"},
                        !.error = "Command timed out", !.command = command,
                        !.timeout = exec_timeout]
    ELSE [NoExec EXCEPT !.kind = "return",
                        !.keys = {"success", "error", "command"},
                        !.error = CASE outcome.type = "FileNotFoundError" -> "Command not found"
                                    [] outcome.type = "PermissionError" -> "Permission denied"
                                    [] OTHER -> "Unexpected error",
                        !.command = command]

\* One call of execute_command(request.command, timeout), from validation to
\* the result returned; the spawned command runs to its end or to the timeout
\* inside the call.
execute_command(timeout) ==
    /\ request.tool = "command"
    /\ exec_ret.kind = "none"
    /\ timeout_arg' = timeout
    /\ LET command == request.command
       IN  IF strip(command) = <<>>
           THEN /\ exec_ret' = ExecError("Empty command provided", <<>>, <<>>)
                /\ process' = NoOutcome
                /\ spawns' = <<>>
                /\ alive' = {}
           ELSE IF ~ _is_command_allowed(command)
           THEN /\ exec_ret' = ExecError("Command not allowed", BaseCommand(command),
                                         sorted(allowed_commands))
                /\ process' = NoOutcome
                /\ spawns' = <<>>
                /\ alive' = {}
           ELSE LET sanitized == _sanitize_command(command) IN
                IF sanitized.raised
           THEN /\ exec_ret' = ExecError("Dangerous pattern detected", sanitized.pattern, <<>>)
                /\ process' = NoOutcome
                /\ spawns' = <<>>
                /\ alive' = {}
           ELSE LET sanitized_command == sanitized.value
                    exec_timeout == ExecTimeout(timeout)
                IN  \E outcome \in RunOutcomes(exec_timeout) :
                        /\ spawns' = <<SpawnRecord(sanitized_command, exec_timeout)>>
                        /\ alive' = AliveAfterRun(1, outcome)
                        /\ process' = IF outcome.type = "completed" THEN outcome
                                       ELSE NoOutcome
                        /\ exec_ret' = IF outcome.type = "completed"
                                       THEN ExecCompleted(sanitized_command, exec_timeout, outcome)
                                       ELSE ExecRaised(command, exec_timeout, outcome)
    /\ UNCHANGED <<allowed_commands, request, check_ret, aux_ret>>
    /\ UNCHANGED file_vars
    /\ UNCHANGED race_vars
    /\ UNCHANGED san_vars

-----------------------------------------------------------------------------
(* ShellTools.check_command_safety                                         *)

\* dangerous_patterns of check_command_safety, in list order
safety_patterns ==
    << [pattern |-> <<"&","&">>, issue |-> "Command chaining detected"],
       [pattern |-> <<"|","|">>, issue |-> "Command chaining detected"],
       [pattern |-> <<";">>, issue |-> "Command separator detected"],
       [pattern |-> <<"|">>, issue |-> "Pipe detected"],
       [pattern |-> <<">">>, issue |-> "Output redirection detected"],
       [pattern |-> <<">",">">>, issue |-> "Output redirection detected"],
       [pattern |-> <<"<">>, issue |-> "Input redirection detected"],
       [pattern |-> <<"BACKTICK">>, issue |-> "Command substitution detected"],
       [pattern |-> <<"$","(">>, issue |-> "Command substitution detected"],
       [pattern |-> <<"r","m"," ","-","r","f">>, issue |-> "Dangerous deletion command"],
       [pattern |-> <<"c","h","m","o","d">>, issue |-> "Permission modification command"],
       [pattern |-> <<"s","u","d","o">>, issue |-> "Privilege escalation command"] >>

\* the patterns of that list
safety_pattern_list == [i \in 1..Len(safety_patterns) |-> safety_patterns[i].pattern]

\* the issues of the patterns found in the text, in list order
SelectIssues(text) ==
    LET hits == Matches(safety_pattern_list, text)
    IN  [k \in 1..Cardinality(hits) |->
            LET i == CHOOSE h \in hits : Cardinality({j \in hits : j < h}) = k - 1
            IN  [issue |-> safety_patterns[i].issue, arg |-> safety_patterns[i].pattern]]

NoCheck ==
    [kind |-> "none", keys |-> {}, success |-> FALSE, analysis_keys |-> {},
     command |-> <<>>, is_allowed |-> FALSE, base_command |-> <<>>,
     safety_issues |-> <<>>, recommendations |-> <<>>, is_safe |-> FALSE]

\* The caller that holds a command may analyse it before it executes it, so
\* that one state can hold both outcomes for the same command.
check_command_safety ==
    /\ request.tool = "command"
    /\ check_ret.kind = "none"
    /\ exec_ret.kind = "none"
    /\ LET command == request.command
           base == [NoCheck EXCEPT
                       !.kind = "return", !.keys = {"success", "analysis"},
                       !.success = TRUE, !.command = command,
                       !.analysis_keys = {"command", "is_allowed", "base_command",
                                          "safety_issues", "recommendations"}]
       IN  IF strip(command) = <<>>
           THEN check_ret' = [base EXCEPT
                    !.safety_issues = <<[issue |-> "Empty command", arg |-> <<>>]>>]
           ELSE LET base_command == FirstToken(strip(command))
                    is_allowed == _is_command_allowed(command)
                    whitelist_issue ==
                        IF is_allowed THEN <<>>
                        ELSE <<[issue |-> "Command not in whitelist", arg |-> base_command]>>
                    pattern_issues == SelectIssues(lower(command))
                    safety_issues == whitelist_issue \o pattern_issues
                IN  check_ret' = [base EXCEPT
                        !.analysis_keys = @ \cup {"is_safe"},
                        !.base_command = base_command,
                        !.is_allowed = is_allowed,
                        !.safety_issues = safety_issues,
                        !.recommendations =
                            [i \in 1..Len(safety_issues) |->
                                IF safety_issues[i].issue = "Command not in whitelist"
                                THEN [text |-> "Use one of the allowed commands",
                                      arg |-> <<>>, list |-> sorted(allowed_commands)]
                                ELSE [text |-> "Avoid using", arg |-> safety_issues[i].arg,
                                      list |-> <<>>]],
                        !.is_safe = (Len(safety_issues) = 0)]
    /\ UNCHANGED <<allowed_commands, request, timeout_arg, process, exec_ret, aux_ret,
                   spawns, alive>>
    /\ UNCHANGED file_vars
    /\ UNCHANGED race_vars
    /\ UNCHANGED san_vars

-----------------------------------------------------------------------------
(* ShellTools.get_system_info and list_allowed_commands                    *)

\* safe_commands, in insertion order
safe_commands ==
    << [info_name |-> "current_user", cmd |-> <<"w","h","o","a","m","i">>],
       [info_name |-> "current_directory", cmd |-> <<"p","w","d">>],
       [info_name |-> "current_date", cmd |-> <<"d","a","t","e">>],
       [info_name |-> "disk_usage", cmd |-> <<"d","f"," ","-","h"," ",".">>] >>

\* what one auxiliary subprocess.run call can do (its output is not modelled)
DiagOutcomes ==
    {o \in RunOutcomes(info_timeout) : o.stdout = <<>> /\ o.stderr = <<>>
                                       /\ o.type # "FileNotFoundError"
                                       /\ o.type # "PermissionError"}

AllowedDiags == {i \in 1..Len(safe_commands) : _is_command_allowed(safe_commands[i].cmd)}

\* the value stored for diagnostic i, or "" when the loop stores nothing
DiagValue(i, outcomes) ==
    IF i \notin AllowedDiags THEN "Command not allowed"
    ELSE IF outcomes[i].type = "completed"
         THEN (IF outcomes[i].returncode = 0 THEN "stdout" ELSE "")
         ELSE "Error"

NoAux ==
    [kind |-> "none", tool |-> "", keys |-> {}, success |-> FALSE,
     entries |-> <<>>, allowed_commands |-> <<>>, total_commands |-> 0,
     timeout |-> 0, max_output_size |-> 0]

PlatformKeys ==
    {"success", "platform", "platform_release", "platform_version", "architecture",
     "processor", "python_version", "working_directory"}

RECURSIVE DiagSpawns(_, _)
DiagSpawns(i, n) ==
    IF i > n THEN <<>>
    ELSE (IF i \in AllowedDiags THEN <<SpawnRecord(safe_commands[i].cmd, info_timeout)>>
          ELSE <<>>)
         \o DiagSpawns(i + 1, n)

get_system_info ==
    /\ request.tool = "get_system_info"
    /\ aux_ret.kind = "none"
    /\ \E outcomes \in [AllowedDiags -> DiagOutcomes] :
        LET stored == {i \in 1..Len(safe_commands) : DiagValue(i, outcomes) # ""}
        IN  /\ aux_ret' = [NoAux EXCEPT
                    !.kind = "return", !.tool = "get_system_info", !.success = TRUE,
                    !.keys = PlatformKeys \cup {safe_commands[i].info_name : i \in stored},
                    !.entries = [i \in stored |-> DiagValue(i, outcomes)]]
            /\ spawns' = spawns \o DiagSpawns(1, Len(safe_commands))
            /\ alive' = alive \cup UNION {AliveAfterRun(i, outcomes[i]) : i \in AllowedDiags}
    /\ UNCHANGED <<allowed_commands, request, timeout_arg, process, exec_ret, check_ret>>
    /\ UNCHANGED file_vars
    /\ UNCHANGED race_vars
    /\ UNCHANGED san_vars

list_allowed_commands ==
    /\ request.tool = "list_allowed_commands"
    /\ aux_ret.kind = "none"
    /\ aux_ret' = [NoAux EXCEPT
            !.kind = "return", !.tool = "list_allowed_commands", !.success = TRUE,
            !.keys = {"success", "allowed_commands", "total_commands", "timeout",
                      "max_output_size", "working_directory"},
            !.allowed_commands = sorted(allowed_commands),
            !.total_commands = Cardinality(allowed_commands),
            !.timeout = timeout_default,
            !.max_output_size = max_output_size]
    /\ UNCHANGED <<allowed_commands, request, timeout_arg, process, exec_ret, check_ret,
                   spawns, alive>>
    /\ UNCHANGED file_vars
    /\ UNCHANGED race_vars
    /\ UNCHANGED san_vars

-----------------------------------------------------------------------------
(* FileTools: construction                                                 *)

\* str.upper() on one character
UpperChar(c) ==
    CASE c = "k" -> "K" [] c = "m" -> "M" [] c = "g" -> "G" [] c = "b" -> "B" [] OTHER -> c

upper(s) == [i \in 1..Len(s) |-> UpperChar(s[i])]

Digits == <<"0", "1", "2", "3", "4", "5", "6", "7", "8", "9">>

DigitValue(c) == (CHOOSE i \in 1..10 : Digits[i] = c) - 1

\* int(s) of a string of decimal digits
RECURSIVE int(_)
int(s) ==
    IF s = <<>> THEN 0 ELSE 10 * int(SubSeq(s, 1, Len(s) - 1)) + DigitValue(s[Len(s)])

endswith(s, suffix) ==
    /\ Len(s) >= Len(suffix)
    /\ SubSeq(s, Len(s) - Len(suffix) + 1, Len(s)) = suffix

_parse_size(size_str) ==
    LET u == strip(upper(size_str))
        number == int(SubSeq(u, 1, Len(u) - 2))
    IN  IF endswith(u, <<"K","B">>) THEN number * 1024
        ELSE IF endswith(u, <<"M","B">>) THEN number * 1024 * 1024
        ELSE IF endswith(u, <<"G","B">>) THEN number * 1024 * 1024 * 1024
        ELSE int(u)

\* values of the environment variable MAX_FILE_SIZE; the second is the default
MaxFileSizeEnv == { <<"2">>, <<"5","0","M","B">> }

TMP == <<"t","m","p">>
AGNO_FILES == <<"a","g","n","o","_","f","i","l","e","s">>
AGNO_SHELL == <<"a","g","n","o","_","s","h","e","l","l">>

\* Path("/tmp/agno_files"), as the sequence of its components
base_path == <<TMP, AGNO_FILES>>

allowed_extensions ==
    { <<".","t","x","t">>, <<".","j","s","o","n">>, <<".","c","s","v">>, <<".","m","d">>,
      <<".","p","y">>, <<".","j","s">>, <<".","h","t","m","l">>, <<".","c","s","s">>,
      <<".","x","m","l">>, <<".","y","m","l">>, <<".","y","a","m","l">>,
      <<".","l","o","g">>, <<".","c","o","n","f">>, <<".","c","f","g">>,
      <<".","i","n","i">> }

-----------------------------------------------------------------------------
(* pathlib and the file system                                             *)

\* str.replace(old, new): the occurrences of old, left to right, not overlapping
RECURSIVE replace(_, _, _)
replace(s, old, new) ==
    IF Len(s) < Len(old) THEN s
    ELSE IF SubSeq(s, 1, Len(old)) = old
         THEN new \o replace(SubSeq(s, Len(old) + 1, Len(s)), old, new)
         ELSE <<Head(s)>> \o replace(Tail(s), old, new)

\* s.split('/')
RECURSIVE SplitSlash(_)
SplitSlash(s) ==
    IF \A i \in 1..Len(s) : s[i] # "/" THEN <<s>>
    ELSE LET i == Min({j \in 1..Len(s) : s[j] = "/"})
         IN  <<SubSeq(s, 1, i - 1)>> \o SplitSlash(SubSeq(s, i + 1, Len(s)))

\* the components of a path string as pathlib parses it: no "" and no "."
RECURSIVE DropEmptyAndDot(_)
DropEmptyAndDot(parts) ==
    IF parts = <<>> THEN <<>>
    ELSE (IF Head(parts) \in {<<>>, <<".">>} THEN <<>> ELSE <<Head(parts)>>)
         \o DropEmptyAndDot(Tail(parts))

PathParts(s) == DropEmptyAndDot(SplitSlash(s))

IsAbsolute(s) == s # <<>> /\ Head(s) = "/"

\* base / s
PathJoin(base, s) == IF IsAbsolute(s) THEN PathParts(s) ELSE base \o PathParts(s)

\* Path(s).name
PathName(s) == LET parts == PathParts(s) IN IF parts = <<>> THEN <<>> ELSE parts[Len(parts)]

\* Path(s).suffix: from the last dot of the name, unless that dot is the
\* first or the last character of the name
PathSuffix(s) ==
    LET name == PathName(s)
        dots == {i \in 1..Len(name) : name[i] = "."}
        i == CHOOSE j \in dots : \A k \in dots : k <= j
    IN  IF dots = {} THEN <<>>
        ELSE IF 1 < i /\ i < Len(name) THEN SubSeq(name, i, Len(name))
        ELSE <<>>

DOTDOT == <<".", ".">>

\* the entry a path denotes: ".." steps to the parent, and a step through
\* a missing entry or through a file has no result
RECURSIVE Resolve(_, _, _)
Resolve(files, at, rest) ==
    IF at \notin DOMAIN files THEN [found |-> FALSE, path |-> <<>>]
    ELSE IF rest = <<>> THEN [found |-> TRUE, path |-> at]
    ELSE IF files[at].kind # "dir" THEN [found |-> FALSE, path |-> <<>>]
    ELSE IF Head(rest) = DOTDOT
         THEN Resolve(files, IF at = <<>> THEN <<>> ELSE SubSeq(at, 1, Len(at) - 1), Tail(rest))
         ELSE Resolve(files, Append(at, Head(rest)), Tail(rest))

Lookup(files, path) == Resolve(files, <<>>, path)

exists(files, path) == Lookup(files, path).found

is_file(files, path) ==
    Lookup(files, path).found /\ files[Lookup(files, path).path].kind = "file"

is_dir(files, path) ==
    Lookup(files, path).found /\ files[Lookup(files, path).path].kind = "dir"

DIR_SIZE == 4096

\* path.stat().st_size
st_size(files, path) ==
    LET e == files[Lookup(files, path).path]
    IN  IF e.kind = "dir" THEN DIR_SIZE ELSE Len(e.data)

\* the entries of a directory
Children(files, dir) ==
    IF ~ is_dir(files, dir) THEN {}
    ELSE LET d == Lookup(files, dir).path
         IN  {q \in DOMAIN files : Len(q) = Len(d) + 1 /\ SubSeq(q, 1, Len(d)) = d}

\* p is base or below it
IsPrefix(base, p) == Len(p) >= Len(base) /\ SubSeq(p, 1, Len(base)) = base

\* p is a proper descendant of base
StrictlyInside(base, p) == Len(p) > Len(base) /\ IsPrefix(base, p)

-----------------------------------------------------------------------------
(* FileTools._sanitize_path and _check_size                                *)

_sanitize_path(filename) ==
    LET clean == replace(replace(replace(filename, DOTDOT, <<>>), <<"/">>, <<"_">>),
                         <<"\\">>, <<"_">>)
    IN  PathJoin(base_path, clean)

\* a size check that also refuses content of exactly max_file_size bytes
CheckSizeInclusive(b) ==
    IF Len(b) >= max_file_size
    THEN [err |-> TRUE, size |-> Len(b), limit |-> max_file_size]
    ELSE [err |-> FALSE, size |-> 0, limit |-> 0]

\* the message, as [raised, size, limit]
_check_size(b) ==
    IF Len(b) > max_file_size
    THEN [err |-> TRUE, size |-> Len(b), limit |-> max_file_size]
    ELSE [err |-> FALSE, size |-> 0, limit |-> 0]

-----------------------------------------------------------------------------
(* Text encodings and text-mode file I/O                                   *)

KnownEncodings == {"utf-8", "ascii"}

\* the bytes of one character; U+00E9 is two bytes in UTF-8 and has none in ASCII
EncodeChar(c, encoding) == IF c = "E_ACUTE" THEN <<"C3", "A9">> ELSE <<c>>

RECURSIVE Flatten(_)
Flatten(ss) == IF ss = <<>> THEN <<>> ELSE Head(ss) \o Flatten(Tail(ss))

\* content.encode(encoding): the bytes, or the exception raised
encode(content, encoding) ==
    IF encoding \notin KnownEncodings
    THEN [ok |-> FALSE, exc |-> "LookupError", bytes |-> <<>>]
    ELSE IF encoding = "ascii" /\ \E i \in 1..Len(content) : content[i] = "E_ACUTE"
    THEN [ok |-> FALSE, exc |-> "UnicodeEncodeError", bytes |-> <<>>]
    ELSE [ok |-> TRUE, exc |-> "",
          bytes |-> Flatten([i \in 1..Len(content) |-> EncodeChar(content[i], encoding)])]

RECURSIVE DecodeUtf8(_)
DecodeUtf8(b) ==
    IF b = <<>> THEN [ok |-> TRUE, text |-> <<>>]
    ELSE IF Head(b) = "C3"
         THEN IF Len(b) >= 2 /\ b[2] = "A9"
              THEN LET r == DecodeUtf8(SubSeq(b, 3, Len(b)))
                   IN  [ok |-> r.ok, text |-> <<"E_ACUTE">> \o r.text]
              ELSE [ok |-> FALSE, text |-> <<>>]
    ELSE IF Head(b) = "A9" THEN [ok |-> FALSE, text |-> <<>>]
    ELSE LET r == DecodeUtf8(Tail(b)) IN [ok |-> r.ok, text |-> <<Head(b)>> \o r.text]

\* bytes.decode(encoding): the text, or the exception raised
decode(b, encoding) ==
    IF encoding \notin KnownEncodings
    THEN [ok |-> FALSE, exc |-> "LookupError", text |-> <<>>]
    ELSE IF encoding = "ascii"
    THEN IF \E i \in 1..Len(b) : b[i] \in {"C3", "A9"}
         THEN [ok |-> FALSE, exc |-> "UnicodeDecodeError", text |-> <<>>]
         ELSE [ok |-> TRUE, exc |-> "", text |-> b]
    ELSE IF DecodeUtf8(b).ok
         THEN [ok |-> TRUE, exc |-> "", text |-> DecodeUtf8(b).text]
         ELSE [ok |-> FALSE, exc |-> "UnicodeDecodeError", text |-> <<>>]

\* os.linesep of the deployment platform (Linux)
linesep == <<"\n">>

\* what a text-mode write (newline=None) puts in the file for the text written
WriteTranslate(text) == replace(text, <<"\n">>, linesep)

\* what a text-mode read (newline=None) returns: "\r\n" and "\r" become "\n"
UniversalNewlines(text) == replace(replace(text, <<"\r", "\n">>, <<"\n">>), <<"\r">>, <<"\n">>)

\* the lines a text file object iterates over, each with its "\n"
RECURSIVE Lines(_)
Lines(text) ==
    IF text = <<>> THEN <<>>
    ELSE IF \A i \in 1..Len(text) : text[i] # "\n" THEN <<text>>
    ELSE LET i == Min({j \in 1..Len(text) : text[j] = "\n"})
         IN  <<SubSeq(text, 1, i)>> \o Lines(SubSeq(text, i + 1, Len(text)))

\* line.rstrip('\n\r')
RECURSIVE RstripNewlines(_)
RstripNewlines(s) ==
    IF s # <<>> /\ s[Len(s)] \in {"\n", "\r"}
    THEN RstripNewlines(SubSeq(s, 1, Len(s) - 1))
    ELSE s

\* '\n'.join(lines)
RECURSIVE JoinLines(_)
JoinLines(lines) ==
    IF lines = <<>> THEN <<>>
    ELSE IF Len(lines) = 1 THEN Head(lines)
    ELSE Head(lines) \o <<"\n">> \o JoinLines(Tail(lines))

\* the loop of read_file: the lines with index below max_lines
FirstLines(lines, max_lines) ==
    IF max_lines <= 0 THEN <<>>
    ELSE SubSeq(lines, 1, IF Len(lines) < max_lines THEN Len(lines) ELSE max_lines)

-----------------------------------------------------------------------------
(* Path.glob                                                                *)

IsWildcard(part) == \E i \in 1..Len(part) : part[i] \in {"*", "?", "["}

\* fnmatch of a name against a pattern of literals, "*" and "?"
RECURSIVE FnMatch(_, _)
FnMatch(name, pat) ==
    IF pat = <<>> THEN name = <<>>
    ELSE IF Head(pat) = "*"
         THEN \/ FnMatch(name, Tail(pat))
              \/ (name # <<>> /\ FnMatch(Tail(name), pat))
    ELSE IF name = <<>> THEN FALSE
    ELSE /\ (Head(pat) = "?" \/ Head(pat) = Head(name))
         /\ FnMatch(Tail(name), Tail(pat))

STARSTAR == <<"*", "*">>

\* the directories at or below a directory, as paths that extend it
DirsBelow(files, dir) ==
    IF ~ is_dir(files, dir) THEN {}
    ELSE LET d == Lookup(files, dir).path
         IN  {dir \o SubSeq(q, Len(d) + 1, Len(q)) :
                 q \in {r \in DOMAIN files : IsPrefix(d, r) /\ files[r].kind = "dir"}}

\* the paths one pattern component selects below one path
SelectPart(files, parent, part, dironly) ==
    IF part = STARSTAR THEN DirsBelow(files, parent)
    ELSE IF IsWildcard(part)
    THEN {parent \o <<q[Len(q)]>> :
             q \in {r \in Children(files, parent) :
                       /\ FnMatch(r[Len(r)], part)
                       /\ (dironly => files[r].kind = "dir")}}
    ELSE IF (IF dironly THEN is_dir(files, Append(parent, part))
             ELSE exists(files, Append(parent, part)))
         THEN {Append(parent, part)}
         ELSE {}

RECURSIVE GlobSelect(_, _, _)
GlobSelect(files, parts, parents) ==
    IF parts = <<>> THEN parents
    ELSE GlobSelect(files, Tail(parts),
                    UNION {SelectPart(files, q, Head(parts), Tail(parts) # <<>>) : q \in parents})

\* base.glob(pattern): the paths, or the exception raised
glob(files, base, pattern) ==
    IF pattern = <<>> THEN [ok |-> FALSE, exc |-> "ValueError", paths |-> {}]
    ELSE IF IsAbsolute(pattern)
    THEN [ok |-> FALSE, exc |-> "NotImplementedError", paths |-> {}]
    ELSE IF PathParts(pattern) = <<>> THEN [ok |-> FALSE, exc |-> "IndexError", paths |-> {}]
    ELSE IF \E i \in 1..Len(PathParts(pattern)) :
                /\ PathParts(pattern)[i] # STARSTAR
                /\ Contains(PathParts(pattern)[i], STARSTAR)
    THEN [ok |-> FALSE, exc |-> "ValueError", paths |-> {}]
    ELSE [ok |-> TRUE, exc |-> "", paths |-> GlobSelect(files, PathParts(pattern), {base})]

-----------------------------------------------------------------------------
(* FileTools: the tools                                                    *)

NoMaxLines == [given |-> FALSE, value |-> 0]

NoFileCall ==
    [op |-> "none", filename |-> <<>>, content |-> <<>>, encoding |-> "",
     max_lines |-> NoMaxLines, pattern |-> <<>>]

NoInfo == [name |-> <<>>, size |-> 0, mime |-> ""]

NoFileRet ==
    [kind |-> "none", exc |-> "", keys |-> {}, success |-> FALSE, error |-> "",
     err_size |-> 0, err_limit |-> 0, path |-> <<>>, size |-> 0, content |-> <<>>,
     files |-> <<>>, count |-> 0, size_freed |-> 0, info |-> NoInfo]

\* an exception that leaves the tool
Raised(exc) == [NoFileRet EXCEPT !.kind = "raise", !.exc = exc]

FileError(msg) ==
    [NoFileRet EXCEPT !.kind = "return", !.keys = {"success", "error"}, !.error = msg]

FileEntry(data) == [kind |-> "file", data |-> data]
DirEntry == [kind |-> "dir", data |-> <<>>]

\* files with path set to an entry
Store(files, path, entry) ==
    [q \in DOMAIN files \cup {path} |-> IF q = path THEN entry ELSE files[q]]

\* an unlink that leaves the entry in place
RemoveNothing(files, path) == files

\* files without path
Remove(files, path) == [q \in DOMAIN files \ {path} |-> files[q]]

create_file(filename, content, encoding) ==
    /\ file_call' = [NoFileCall EXCEPT !.op = "create_file", !.filename = filename,
                                       !.content = content, !.encoding = encoding]
    /\ IF lower(PathSuffix(filename)) \notin allowed_extensions
       THEN /\ file_ret' = FileError("Extension not allowed")
            /\ UNCHANGED <<fs, deleted>>
            /\ touched' = {}
       ELSE LET path == _sanitize_path(filename)
                b == encode(content, encoding)
                err == _check_size(b.bytes)
            IN  IF ~ b.ok
                THEN /\ file_ret' = Raised(b.exc)
                     /\ UNCHANGED <<fs, deleted>>
                     /\ touched' = {}
                ELSE IF err.err
                THEN /\ file_ret' = [FileError("Content size exceeds max") EXCEPT
                                        !.err_size = err.size, !.err_limit = err.limit]
                     /\ UNCHANGED <<fs, deleted>>
                     /\ touched' = {}
                ELSE IF is_dir(fs, path)
                THEN /\ file_ret' = Raised("IsADirectoryError")
                     /\ UNCHANGED <<fs, deleted>>
                     /\ touched' = {Lookup(fs, path).path}
                ELSE /\ fs' = Store(fs, path, FileEntry(encode(WriteTranslate(content),
                                                               encoding).bytes))
                     /\ touched' = {path}
                     /\ deleted' = deleted \ {path}
                     /\ file_ret' = [NoFileRet EXCEPT
                            !.kind = "return", !.keys = {"success", "path", "size"},
                            !.success = TRUE, !.path = path, !.size = Len(b.bytes)]
    /\ UNCHANGED max_file_size
    /\ UNCHANGED shell_vars
    /\ UNCHANGED race_vars
    /\ UNCHANGED san_vars

\* the content read_file builds, or the exception raised while reading
ReadContent(files, path, encoding, max_lines) ==
    LET d == decode(files[Lookup(files, path).path].data, encoding)
        text == UniversalNewlines(d.text)
        lines == Lines(text)
    IN  IF is_dir(files, path) THEN [ok |-> FALSE, exc |-> "IsADirectoryError", content |-> <<>>]
        ELSE IF encoding \notin KnownEncodings
        THEN [ok |-> FALSE, exc |-> "LookupError", content |-> <<>>]
        ELSE IF ~ d.ok THEN [ok |-> FALSE, exc |-> d.exc, content |-> <<>>]
        ELSE IF max_lines.given /\ max_lines.value # 0
        THEN [ok |-> TRUE, exc |-> "",
              content |-> JoinLines([i \in 1..Len(FirstLines(lines, max_lines.value)) |->
                                        RstripNewlines(FirstLines(lines, max_lines.value)[i])])]
        ELSE [ok |-> TRUE, exc |-> "", content |-> text]

read_file(filename, encoding, max_lines) ==
    /\ file_call' = [NoFileCall EXCEPT !.op = "read_file", !.filename = filename,
                                       !.encoding = encoding, !.max_lines = max_lines]
    /\ LET path == _sanitize_path(filename)
       IN  IF ~ exists(fs, path)
           THEN /\ file_ret' = FileError("Not found")
                /\ touched' = {}
           ELSE IF st_size(fs, path) > max_file_size
           THEN /\ file_ret' = FileError("File too large")
                /\ touched' = {Lookup(fs, path).path}
           ELSE LET r == ReadContent(fs, path, encoding, max_lines)
                IN  /\ touched' = {Lookup(fs, path).path}
                    /\ file_ret' = IF ~ r.ok THEN Raised(r.exc)
                                   ELSE [NoFileRet EXCEPT
                                            !.kind = "return",
                                            !.keys = {"success", "content", "size"},
                                            !.success = TRUE, !.content = r.content,
                                            !.size = st_size(fs, path)]
    /\ UNCHANGED <<max_file_size, fs, deleted>>
    /\ UNCHANGED shell_vars
    /\ UNCHANGED race_vars
    /\ UNCHANGED san_vars

\* items.sort(key=name) of the listed paths
RECURSIVE SortItems(_, _)
SortItems(files, paths) ==
    IF paths = {} THEN <<>>
    ELSE LET q == CHOOSE x \in paths :
                     \A y \in paths : ~ StrLess(y[Len(y)], x[Len(x)])
         IN  <<[name |-> q[Len(q)], size |-> st_size(files, q)]>>
             \o SortItems(files, paths \ {q})

list_files(pattern) ==
    /\ file_call' = [NoFileCall EXCEPT !.op = "list_files", !.pattern = pattern]
    /\ LET g == glob(fs, base_path, pattern)
           listed == {q \in g.paths : is_file(fs, q)}
       IN  IF ~ g.ok
           THEN /\ file_ret' = Raised(g.exc)
                /\ touched' = {}
           ELSE /\ touched' = {Lookup(fs, q).path : q \in listed}
                /\ file_ret' = [NoFileRet EXCEPT
                        !.kind = "return", !.keys = {"success", "files", "count"},
                        !.success = TRUE, !.files = SortItems(fs, listed),
                        !.count = Cardinality(listed)]
    /\ UNCHANGED <<max_file_size, fs, deleted>>
    /\ UNCHANGED shell_vars
    /\ UNCHANGED race_vars
    /\ UNCHANGED san_vars

delete_file(filename) ==
    /\ file_call' = [NoFileCall EXCEPT !.op = "delete_file", !.filename = filename]
    /\ LET path == _sanitize_path(filename)
       IN  IF ~ exists(fs, path)
           THEN /\ file_ret' = FileError("Not found")
                /\ touched' = {}
                /\ UNCHANGED <<fs, deleted>>
           ELSE IF is_dir(fs, path)
           THEN /\ file_ret' = Raised("IsADirectoryError")
                /\ touched' = {Lookup(fs, path).path}
                /\ UNCHANGED <<fs, deleted>>
           ELSE /\ fs' = Remove(fs, Lookup(fs, path).path)
                /\ touched' = {Lookup(fs, path).path}
                /\ deleted' = deleted \cup {path}
                /\ file_ret' = [NoFileRet EXCEPT
                        !.kind = "return", !.keys = {"success", "size_freed"},
                        !.success = TRUE, !.size_freed = st_size(fs, path)]
    /\ UNCHANGED max_file_size
    /\ UNCHANGED shell_vars
    /\ UNCHANGED race_vars
    /\ UNCHANGED san_vars

\* mimetypes.guess_type(filename)[0] for the extensions of the file names drawn
guess_type(filename) ==
    IF endswith(lower(filename), <<".","p","y">>) /\ Len(PathName(filename)) > 3
    THEN "text/x-python"
    ELSE "None"

get_file_info(filename) ==
    /\ file_call' = [NoFileCall EXCEPT !.op = "get_file_info", !.filename = filename]
    /\ LET path == _sanitize_path(filename)
       IN  IF ~ exists(fs, path)
           THEN /\ file_ret' = FileError("Not found")
                /\ touched' = {}
           ELSE /\ touched' = {Lookup(fs, path).path}
                /\ file_ret' = [NoFileRet EXCEPT
                        !.kind = "return", !.keys = {"success", "info"},
                        !.success = TRUE,
                        !.info = [name |-> filename, size |-> st_size(fs, path),
                                  mime |-> guess_type(filename)]]
    /\ UNCHANGED <<max_file_size, fs, deleted>>
    /\ UNCHANGED shell_vars
    /\ UNCHANGED race_vars
    /\ UNCHANGED san_vars

-----------------------------------------------------------------------------
(* delete_file, read_file and get_file_info called at the same time: each  *)
(* call is a sequence of file-system calls (exists, stat, open, unlink),   *)
(* and the calls of another caller can run between any two of them.        *)

\* a caller: pc is the file-system call it makes next
NoCaller ==
    [op |-> "none", filename |-> <<>>, encoding |-> "", max_lines |-> NoMaxLines,
     pc |-> "done", size |-> 0, content |-> <<>>, ret |-> NoFileRet]

Call(op, filename, encoding, max_lines) ==
    [NoCaller EXCEPT !.op = op, !.filename = filename, !.encoding = encoding,
                     !.max_lines = max_lines, !.pc = "exists"]

\* the caller returns or raises
Done(caller, ret) == [caller EXCEPT !.pc = "done", !.ret = ret]

\* if not path.exists(): return {"success": False, "error": "Not found"}
ExistsStep(caller, next_pc) ==
    IF ~ exists(fs, _sanitize_path(caller.filename))
    THEN Done(caller, FileError("Not found"))
    ELSE [caller EXCEPT !.pc = next_pc]

\* delete_file, line 89
delete_exists(c) ==
    /\ c \in DOMAIN callers
    /\ callers[c].op = "delete_file"
    /\ callers[c].pc = "exists"
    /\ callers' = [callers EXCEPT ![c] = ExistsStep(@, "stat")]
    /\ UNCHANGED file_vars
    /\ UNCHANGED shell_vars
    /\ UNCHANGED san_vars

\* delete_file, line 91: size = path.stat().st_size
delete_stat(c) ==
    /\ c \in DOMAIN callers
    /\ callers[c].op = "delete_file"
    /\ callers[c].pc = "stat"
    /\ LET path == _sanitize_path(callers[c].filename)
       IN  callers' = [callers EXCEPT ![c] =
               IF ~ exists(fs, path) THEN Done(@, Raised("FileNotFoundError"))
               ELSE [@ EXCEPT !.pc = "unlink", !.size = st_size(fs, path)]]
    /\ UNCHANGED file_vars
    /\ UNCHANGED shell_vars
    /\ UNCHANGED san_vars

\* delete_file, lines 92-93: path.unlink() and the result
delete_unlink(c) ==
    /\ c \in DOMAIN callers
    /\ callers[c].op = "delete_file"
    /\ callers[c].pc = "unlink"
    /\ LET path == _sanitize_path(callers[c].filename)
       IN  IF ~ exists(fs, path)
           THEN /\ callers' = [callers EXCEPT ![c] = Done(@, Raised("FileNotFoundError"))]
                /\ UNCHANGED fs
           ELSE IF is_dir(fs, path)
           THEN /\ callers' = [callers EXCEPT ![c] = Done(@, Raised("IsADirectoryError"))]
                /\ UNCHANGED fs
           ELSE /\ fs' = Remove(fs, Lookup(fs, path).path)
                /\ callers' = [callers EXCEPT ![c] =
                        Done(@, [NoFileRet EXCEPT
                                    !.kind = "return", !.keys = {"success", "size_freed"},
                                    !.success = TRUE, !.size_freed = callers[c].size])]
    /\ UNCHANGED <<max_file_size, file_call, file_ret, touched, deleted>>
    /\ UNCHANGED shell_vars
    /\ UNCHANGED san_vars

\* read_file, line 61
read_exists(c) ==
    /\ c \in DOMAIN callers
    /\ callers[c].op = "read_file"
    /\ callers[c].pc = "exists"
    /\ callers' = [callers EXCEPT ![c] = ExistsStep(@, "stat")]
    /\ UNCHANGED file_vars
    /\ UNCHANGED shell_vars
    /\ UNCHANGED san_vars

\* read_file, lines 63-64: if path.stat().st_size > self.max_file_size
read_stat(c) ==
    /\ c \in DOMAIN callers
    /\ callers[c].op = "read_file"
    /\ callers[c].pc = "stat"
    /\ LET path == _sanitize_path(callers[c].filename)
       IN  callers' = [callers EXCEPT ![c] =
               IF ~ exists(fs, path) THEN Done(@, Raised("FileNotFoundError"))
               ELSE IF st_size(fs, path) > max_file_size
               THEN Done(@, FileError("File too large"))
               ELSE [@ EXCEPT !.pc = "open"]]
    /\ UNCHANGED file_vars
    /\ UNCHANGED shell_vars
    /\ UNCHANGED san_vars

\* read_file, lines 65-74: the file is opened and read; an open file stays
\* readable when its name is unlinked
read_open(c) ==
    /\ c \in DOMAIN callers
    /\ callers[c].op = "read_file"
    /\ callers[c].pc = "open"
    /\ LET path == _sanitize_path(callers[c].filename)
       IN  callers' = [callers EXCEPT ![c] =
               IF ~ exists(fs, path) THEN Done(@, Raised("FileNotFoundError"))
               ELSE LET r == ReadContent(fs, path, callers[c].encoding,
                                         callers[c].max_lines)
                    IN  IF ~ r.ok THEN Done(@, Raised(r.exc))
                        ELSE [@ EXCEPT !.pc = "size", !.content = r.content]]
    /\ UNCHANGED file_vars
    /\ UNCHANGED shell_vars
    /\ UNCHANGED san_vars

\* read_file, line 75: the result, with "size": path.stat().st_size
read_size(c) ==
    /\ c \in DOMAIN callers
    /\ callers[c].op = "read_file"
    /\ callers[c].pc = "size"
    /\ LET path == _sanitize_path(callers[c].filename)
       IN  callers' = [callers EXCEPT ![c] =
               IF ~ exists(fs, path) THEN Done(@, Raised("FileNotFoundError"))
               ELSE Done(@, [NoFileRet EXCEPT
                                !.kind = "return", !.keys = {"success", "content", "size"},
                                !.success = TRUE, !.content = callers[c].content,
                                !.size = st_size(fs, path)])]
    /\ UNCHANGED file_vars
    /\ UNCHANGED shell_vars
    /\ UNCHANGED san_vars

\* get_file_info, line 98
info_exists(c) ==
    /\ c \in DOMAIN callers
    /\ callers[c].op = "get_file_info"
    /\ callers[c].pc = "exists"
    /\ callers' = [callers EXCEPT ![c] = ExistsStep(@, "stat")]
    /\ UNCHANGED file_vars
    /\ UNCHANGED shell_vars
    /\ UNCHANGED san_vars

\* get_file_info, lines 100-109: stat = path.stat() and the result
info_stat(c) ==
    /\ c \in DOMAIN callers
    /\ callers[c].op = "get_file_info"
    /\ callers[c].pc = "stat"
    /\ LET path == _sanitize_path(callers[c].filename)
       IN  callers' = [callers EXCEPT ![c] =
               IF ~ exists(fs, path) THEN Done(@, Raised("FileNotFoundError"))
               ELSE Done(@, [NoFileRet EXCEPT
                                !.kind = "return", !.keys = {"success", "info"},
                                !.success = TRUE,
                                !.info = [name |-> callers[c].filename,
                                          size |-> st_size(fs, path),
                                          mime |-> guess_type(callers[c].filename)]])]
    /\ UNCHANGED file_vars
    /\ UNCHANGED shell_vars
    /\ UNCHANGED san_vars

-----------------------------------------------------------------------------
(* The path sanitizer on its own                                           *)

sanitize_path ==
    /\ name_out.done = FALSE
    /\ name_out' = [done |-> TRUE, path |-> _sanitize_path(name_in)]
    /\ UNCHANGED name_in
    /\ UNCHANGED shell_vars
    /\ UNCHANGED file_vars
    /\ UNCHANGED race_vars

-----------------------------------------------------------------------------
(* Inputs                                                                  *)

CmdChars == {"l", "s", "S", "u", " ", ";"}
Commands == BoundedSeq(CmdChars, MaxCmdLen)

Timeouts == {NoTimeout} \cup {[given |-> TRUE, value |-> v] : v \in {0, 1}}

Requests ==
    {[tool |-> "command", command |-> c] : c \in Commands}
    \cup
    {[tool |-> x, command |-> <<>>] : x \in {"get_system_info", "list_allowed_commands"}}

FileNames ==
    { <<"p", ".", "p", "y">>, <<"p", ".", ".", "p", "y">>, <<".", ".">>, <<"p">> }

Contents ==
    { <<>>, <<"a">>, <<"a", "\r", "a">>, <<"a", "\n", "a">>, <<"E_ACUTE">> }

Encodings == {"utf-8", "ascii", "bogus"}

MaxLinesValues == {NoMaxLines} \cup {[given |-> TRUE, value |-> v] : v \in {0, 1}}

Patterns ==
    { <<"*">>, <<".", ".", "/", "*">>, <<>>, <<"/", "p">>, <<"*", ".", "p", "y">> }

\* the callers that run at the same time
Callers == {1, 2}

\* the calls two callers make on the file f at the same time; a read asks
\* for the encoding the file was written in
RaceCalls(f) ==
    {Call("delete_file", f, "", NoMaxLines), Call("get_file_info", f, "", NoMaxLines)}
    \cup {Call("read_file", f, "utf-8", m) : m \in MaxLinesValues}

PathChars == {".", "/", "\\", "p"}
RawNames == BoundedSeq(PathChars, MaxNameLen)

-----------------------------------------------------------------------------
(* Initial states and specifications                                       *)

\* a file some other program keeps in /tmp
HOST_FILE == <<"y">>

\* the file system after FileTools() and ShellTools() were constructed
InitialFs ==
    LET dirs == {<<>>, <<TMP>>, base_path, <<TMP, AGNO_SHELL>>}
    IN  [q \in dirs \cup {<<TMP, HOST_FILE>>} |->
            IF q \in dirs THEN DirEntry ELSE FileEntry(<<"a">>)]

ShellIdle ==
    /\ allowed_commands = ParseAllowed(default_commands)
    /\ request = [tool |-> "none", command |-> <<>>]
    /\ timeout_arg = NoTimeout
    /\ process = NoOutcome
    /\ exec_ret = NoExec
    /\ check_ret = NoCheck
    /\ aux_ret = NoAux
    /\ spawns = <<>>
    /\ alive = {}

FileIdle ==
    /\ max_file_size = _parse_size(<<"5","0","M","B">>)
    /\ fs = InitialFs
    /\ file_call = NoFileCall
    /\ file_ret = NoFileRet
    /\ touched = {}
    /\ deleted = {}

RaceIdle == callers = <<>>

SanIdle ==
    /\ name_in = <<>>
    /\ name_out = [done |-> TRUE, path |-> base_path]

InitShell ==
    /\ allowed_commands \in {ParseAllowed(e) : e \in AllowedCommandsEnv}
    /\ request \in Requests
    /\ timeout_arg = NoTimeout
    /\ process = NoOutcome
    /\ exec_ret = NoExec
    /\ check_ret = NoCheck
    /\ aux_ret = NoAux
    /\ spawns = <<>>
    /\ alive = {}
    /\ FileIdle
    /\ RaceIdle
    /\ SanIdle

NextShell ==
    \/ \E t \in Timeouts : execute_command(t)
    \/ check_command_safety
    \/ get_system_info
    \/ list_allowed_commands

SpecShell == InitShell /\ [][NextShell]_vars

InitFile ==
    /\ max_file_size \in {_parse_size(e) : e \in MaxFileSizeEnv}
    /\ fs = InitialFs
    /\ file_call = NoFileCall
    /\ file_ret = NoFileRet
    /\ touched = {}
    /\ deleted = {}
    /\ ShellIdle
    /\ RaceIdle
    /\ SanIdle

NextFile ==
    \/ \E f \in FileNames, c \in Contents, e \in Encodings : create_file(f, c, e)
    \/ \E f \in FileNames, e \in Encodings, m \in MaxLinesValues : read_file(f, e, m)
    \/ \E p \in Patterns : list_files(p)
    \/ \E f \in FileNames : delete_file(f)
    \/ \E f \in FileNames : get_file_info(f)

SpecFile == InitFile /\ [][NextFile]_vars

InitSanitize ==
    /\ name_in \in RawNames
    /\ name_out = [done |-> FALSE, path |-> <<>>]
    /\ ShellIdle
    /\ FileIdle
    /\ RaceIdle

NextSanitize == sanitize_path

SpecSanitize == InitSanitize /\ [][NextSanitize]_vars

\* Two calls on one file that create_file wrote, at least one of them a
\* delete_file, each about to make its first file-system call.
InitRace ==
    /\ max_file_size \in {_parse_size(e) : e \in MaxFileSizeEnv}
    /\ \E f \in {g \in FileNames : lower(PathSuffix(g)) \in allowed_extensions},
          content \in {x \in Contents : encode(x, "utf-8").ok} :
          /\ ~ _check_size(encode(content, "utf-8").bytes).err
          /\ fs = Store(InitialFs, _sanitize_path(f),
                        FileEntry(encode(WriteTranslate(content), "utf-8").bytes))
          /\ callers \in {cs \in [Callers -> RaceCalls(f)] :
                              \E c \in Callers : cs[c].op = "delete_file"}
    /\ file_call = NoFileCall
    /\ file_ret = NoFileRet
    /\ touched = {}
    /\ deleted = {}
    /\ ShellIdle
    /\ SanIdle

NextRace ==
    \/ \E c \in Callers : delete_exists(c)
    \/ \E c \in Callers : delete_stat(c)
    \/ \E c \in Callers : delete_unlink(c)
    \/ \E c \in Callers : read_exists(c)
    \/ \E c \in Callers : read_stat(c)
    \/ \E c \in Callers : read_open(c)
    \/ \E c \in Callers : read_size(c)
    \/ \E c \in Callers : info_exists(c)
    \/ \E c \in Callers : info_stat(c)

SpecRace == InitRace /\ [][NextRace]_vars

-----------------------------------------------------------------------------
(* Properties                                                              *)

\* some denylist pattern of execute_command is a substring of the lower-cased command
HasDenylistedPattern(command) ==
    \E i \in 1..Len(dangerous_patterns) : Contains(lower(command), dangerous_patterns[i])

\* the command has a first token and it is not a member of the whitelist
BaseNotWhitelisted(command) ==
    /\ FirstToken(command) # <<>>
    /\ \A a \in allowed_commands : a # FirstToken(command)

\* seq lists exactly the members of S, in ascending order
IsSortedListOf(seq, S) ==
    /\ {seq[i] : i \in 1..Len(seq)} = S
    /\ \A i \in 1..(Len(seq) - 1) : StrLess(seq[i], seq[i + 1])

\* C1: a command whose first token is not whitelisted (compared as typed) is
\* rejected by execute_command with the 'not allowed' error that lists the
\* sorted whitelist, and no subprocess was spawned, denylisted substrings or not
C1_NotWhitelistedRejected ==
    (exec_ret.kind # "none" /\ BaseNotWhitelisted(request.command)) =>
        /\ exec_ret.kind = "return"
        /\ exec_ret.success = FALSE
        /\ exec_ret.error = "Command not allowed"
        /\ exec_ret.error_arg = FirstToken(request.command)
        /\ IsSortedListOf(exec_ret.allowed, allowed_commands)
        /\ Len(spawns) = 0

\* a command that is not whitelisted and holds a denylisted substring was
\* rejected by the whitelist
C1_Witness ==
    /\ exec_ret.kind = "return"
    /\ BaseNotWhitelisted(request.command)
    /\ HasDenylistedPattern(request.command)
    /\ exec_ret.error = "Command not allowed"
    /\ Len(spawns) = 0

\* C2: a command with a whitelisted base token whose lower-cased text holds a
\* denylist pattern is rejected with 'Dangerous pattern detected: <pattern>'
\* and spawns nothing; only commands free of every pattern are spawned
C2_DenylistRejected ==
    /\ (exec_ret.kind # "none" /\ FirstToken(request.command) \in allowed_commands
            /\ HasDenylistedPattern(request.command)) =>
          /\ exec_ret.kind = "return"
          /\ exec_ret.success = FALSE
          /\ exec_ret.error = "Dangerous pattern detected"
          /\ \E i \in 1..Len(dangerous_patterns) :
                /\ exec_ret.error_arg = dangerous_patterns[i]
                /\ Contains(lower(request.command), dangerous_patterns[i])
          /\ Len(spawns) = 0
    /\ (request.tool = "command" /\ Len(spawns) > 0) =>
          ~ HasDenylistedPattern(request.command)

\* a whitelisted command that holds a pattern only in upper case was rejected
C2_Witness ==
    /\ exec_ret.kind = "return"
    /\ FirstToken(request.command) \in allowed_commands
    /\ HasDenylistedPattern(request.command)
    /\ \A i \in 1..Len(dangerous_patterns) :
          ~ Contains(request.command, dangerous_patterns[i])
    /\ exec_ret.error = "Dangerous pattern detected"
    /\ Len(spawns) = 0

\* C3: for a file name that holds '..', '/' or '\', _sanitize_path returns a
\* proper descendant of base_directory whose name holds none of the three
C3_SanitizedStrictlyInside ==
    (name_out.done /\ (Contains(name_in, DOTDOT) \/ Contains(name_in, <<"/">>)
                       \/ Contains(name_in, <<"\\">>))) =>
        /\ StrictlyInside(base_path, name_out.path)
        /\ LET name == name_out.path[Len(name_out.path)]
           IN  /\ ~ Contains(name, DOTDOT)
               /\ ~ Contains(name, <<"/">>)
               /\ ~ Contains(name, <<"\\">>)

\* C4: no file tool reads, writes, removes or reports an entry that is not
\* base_directory or below it
C4_NoEscape == \A q \in touched : IsPrefix(base_path, q)

\* C5: every tool returns a mapping with a boolean success and, when success
\* is false, an error; no call raises
WellFormed(ret) ==
    /\ ret.kind # "raise"
    /\ ret.kind = "return" =>
          /\ "success" \in ret.keys
          /\ ret.success \in BOOLEAN
          /\ (~ ret.success) => "error" \in ret.keys

C5_NoFault ==
    /\ WellFormed(file_ret)
    /\ WellFormed(exec_ret)
    /\ WellFormed(check_ret)
    /\ WellFormed(aux_ret)

\* C6: a successful create_file(f, content) followed at once by read_file(f)
\* in the same encoding and without max_lines returns the content written
\* and the size create_file reported
C6_RoundTrip ==
    [][(/\ file_call.op = "create_file"
        /\ file_ret.kind = "return"
        /\ file_ret.success
        /\ file_call'.op = "read_file"
        /\ file_call'.filename = file_call.filename
        /\ file_call'.encoding = file_call.encoding
        /\ ~ file_call'.max_lines.given)
       => (/\ file_ret'.kind = "return"
           /\ file_ret'.success
           /\ file_ret'.content = file_call.content
           /\ file_ret'.size = file_ret.size)]_vars

\* C7: when a spawned command times out, execute_command reports the timeout
\* and no process of the command (the shell or what it started) still runs
C7_TimeoutKillsTree ==
    (exec_ret.kind = "return" /\ exec_ret.error = "Command timed out") =>
        /\ exec_ret.success = FALSE
        /\ alive = {}

\* C8: the timeout given to the spawned process is the timeout argument
\* whenever one is provided, 0 included, and the default only when none is
C8_EffectiveTimeout ==
    (request.tool = "command" /\ Len(spawns) > 0) =>
        spawns[1].timeout = (IF timeout_arg.given THEN timeout_arg.value ELSE timeout_default)

\* C9: check_command_safety reports is_safe exactly for the commands that
\* execute_command validates and spawns, reports is_safe = false with an issue
\* for each command execute_command rejects, and spawns nothing itself
C9_SafetyMatchesValidator ==
    /\ (check_ret.kind # "none" /\ exec_ret.kind = "none") => Len(spawns) = 0
    /\ (check_ret.kind # "none" /\ exec_ret.kind # "none") =>
          /\ check_ret.kind = "return"
          /\ ("is_safe" \in check_ret.analysis_keys /\ check_ret.is_safe) <=> (Len(spawns) > 0)
          /\ (Len(spawns) = 0) => Len(check_ret.safety_issues) >= 1

\* C10: with max_lines given, 0 included, read_file returns the first
\* max_lines lines of the file at most, terminators stripped, joined by a
\* newline; the whole content is returned only when max_lines is not given
C10_MaxLines ==
    (file_call.op = "read_file" /\ file_ret.kind = "return" /\ file_ret.success
        /\ file_call.max_lines.given) =>
        LET path == _sanitize_path(file_call.filename)
            text == UniversalNewlines(decode(fs[Lookup(fs, path).path].data,
                                             file_call.encoding).text)
            n == file_call.max_lines.value
            kept == SubSeq(Lines(text), 1, IF Len(Lines(text)) < n THEN Len(Lines(text)) ELSE n)
        IN  file_ret.content = JoinLines([i \in 1..Len(kept) |-> RstripNewlines(kept[i])])

\* C11: for an allowed extension and content the encoding can encode,
\* create_file writes the file and returns success when the encoded length is
\* exactly max_file_size; when it is max_file_size + 1 it returns success =
\* false with the error that states the content size and the limit, and the
\* file system is left as it was
C11_SizeBoundary ==
    [][(/\ file_call'.op = "create_file"
        /\ lower(PathSuffix(file_call'.filename)) \in allowed_extensions
        /\ encode(file_call'.content, file_call'.encoding).ok)
       => LET b == encode(file_call'.content, file_call'.encoding).bytes
              path == _sanitize_path(file_call'.filename)
          IN  /\ (Len(b) = max_file_size) =>
                    /\ file_ret'.kind = "return"
                    /\ file_ret'.keys = {"success", "path", "size"}
                    /\ file_ret'.success
                    /\ file_ret'.size = Len(b)
                    /\ is_file(fs', path)
                    /\ fs'[path].data = b
              /\ (Len(b) = max_file_size + 1) =>
                    /\ file_ret'.kind = "return"
                    /\ file_ret'.keys = {"success", "error"}
                    /\ file_ret'.success = FALSE
                    /\ file_ret'.error = "Content size exceeds max"
                    /\ file_ret'.err_size = Len(b)
                    /\ file_ret'.err_limit = max_file_size
                    /\ fs' = fs]_vars

\* create_file wrote content of exactly max_file_size encoded bytes
C11_Witness ==
    /\ file_call.op = "create_file"
    /\ encode(file_call.content, file_call.encoding).ok
    /\ Len(encode(file_call.content, file_call.encoding).bytes) = max_file_size
    /\ file_ret.kind = "return"
    /\ file_ret.success
    /\ is_file(fs, _sanitize_path(file_call.filename))
    /\ Len(fs[_sanitize_path(file_call.filename)].data) = max_file_size

\* create_file refused content of max_file_size + 1 encoded bytes
C11_RejectedAboveLimit ==
    /\ file_call.op = "create_file"
    /\ file_ret.error = "Content size exceeds max"
    /\ file_ret.err_size = max_file_size + 1

\* C12: once delete_file removed a sanitized path, and until a create_file
\* writes that path again, every delete_file, read_file and get_file_info on
\* it returns success = false with the 'Not found' error, raises nothing and
\* leaves the file system as it was
C12_DeletedStaysNotFound ==
    [][(/\ file_call'.op \in {"delete_file", "read_file", "get_file_info"}
        /\ _sanitize_path(file_call'.filename) \in deleted)
       => (/\ file_ret'.kind = "return"
           /\ file_ret'.keys = {"success", "error"}
           /\ file_ret'.success = FALSE
           /\ file_ret'.error = "Not found"
           /\ fs' = fs)]_vars

\* delete_file ran on a path an earlier delete_file had removed
C12_Witness ==
    /\ file_call.op = "delete_file"
    /\ _sanitize_path(file_call.filename) \in deleted
    /\ file_ret.kind = "return"
    /\ file_ret.error = "Not found"
    /\ ~ exists(fs, _sanitize_path(file_call.filename))

\* p is text[:k] for some k
IsTextPrefix(p, text) ==
    /\ Len(p) <= Len(text)
    /\ \A i \in 1..Len(p) :
          /\ p[i].c = text[i].c
          /\ IF i < Len(p) THEN p[i].n = text[i].n ELSE p[i].n <= text[i].n

\* C13: when the spawned command completed, the stdout and the stderr
\* returned are each at most max_output_size long and each a prefix of the
\* stream captured, and output_truncated is true exactly when the captured
\* stdout or the captured stderr is longer than max_output_size
C13_OutputTruncation ==
    (exec_ret.kind = "return" /\ process.type = "completed") =>
        /\ {"stdout", "stderr", "output_truncated"} \subseteq exec_ret.keys
        /\ TextLen(exec_ret.stdout) <= max_output_size
        /\ TextLen(exec_ret.stderr) <= max_output_size
        /\ IsTextPrefix(exec_ret.stdout, process.stdout)
        /\ IsTextPrefix(exec_ret.stderr, process.stderr)
        /\ exec_ret.output_truncated <=>
               (TextLen(process.stdout) > max_output_size
                \/ TextLen(process.stderr) > max_output_size)

\* a completed command wrote one character more than max_output_size to
\* stdout and max_output_size characters to stderr; stdout came back cut
C13_Witness ==
    /\ exec_ret.kind = "return"
    /\ process.type = "completed"
    /\ TextLen(process.stdout) = max_output_size + 1
    /\ TextLen(process.stderr) = max_output_size
    /\ TextLen(exec_ret.stdout) = max_output_size
    /\ exec_ret.stdout # process.stdout
    /\ exec_ret.stderr = process.stderr
    /\ exec_ret.output_truncated

\* C14: when delete_file runs at the same time as a delete_file, a read_file
\* or a get_file_info on the same existing file, every call returns a
\* well-formed result and raises nothing, each call reports its success
\* result or 'Not found', and once all calls returned exactly one
\* delete_file reported success
C14_ConcurrentCallsWellFormed ==
    /\ \A c \in DOMAIN callers :
          callers[c].pc = "done" =>
              /\ WellFormed(callers[c].ret)
              /\ callers[c].ret.kind = "return"
              /\ callers[c].ret.success \/ callers[c].ret.error = "Not found"
    /\ (callers # <<>> /\ \A c \in DOMAIN callers : callers[c].pc = "done") =>
          Cardinality({c \in DOMAIN callers :
                          /\ callers[c].op = "delete_file"
                          /\ callers[c].ret.kind = "return"
                          /\ callers[c].ret.success}) = 1

\* C15: get_system_info returns success = true with an entry for each of its
\* four diagnostics: 'Command not allowed', and no spawn, for a diagnostic
\* whose base command is not whitelisted, and the output or an inline error
\* string for one that was spawned, whatever became of the others
C15_EveryDiagnosticReported ==
    (aux_ret.kind = "return" /\ aux_ret.tool = "get_system_info") =>
        /\ aux_ret.success
        /\ \A i \in 1..Len(safe_commands) :
              /\ safe_commands[i].info_name \in aux_ret.keys
              /\ i \in DOMAIN aux_ret.entries
              /\ IF _is_command_allowed(safe_commands[i].cmd)
                 THEN aux_ret.entries[i] \in {"stdout", "Error"}
                 ELSE /\ aux_ret.entries[i] = "Command not allowed"
                      /\ \A k \in 1..Len(spawns) : spawns[k].args # safe_commands[i].cmd

\* C16: the file a successful create_file wrote has a name whose extension,
\* lower-cased, is in allowed_extensions
C16_WrittenExtensionAllowed ==
    (file_call.op = "create_file" /\ file_ret.kind = "return" /\ file_ret.success) =>
        /\ is_file(fs, file_ret.path)
        /\ lower(PathSuffix(file_ret.path[Len(file_ret.path)])) \in allowed_extensions

====
